---- MODULE Spec2Model ----
(***************************************************************************)
(* Model of the cellular-automaton cave generator in src/src/main.rs: the  *)
(* Dungeon grid (new, initialize_random, count_wall_neighbors,             *)
(* simulate_step, render) and the driver loop of main.                     *)
(*                                                                         *)
(* A Vec of length n is a function with domain 0..n-1, so that the model   *)
(* keeps the source's zero-based coordinates: tiles[y][x].                 *)
(***************************************************************************)
EXTENDS Integers, Sequences, FiniteSets, TLC

(* ---------------------------------------------------------------- bounds *)

\* Largest number of cells for which every grid of every shape and content
\* is explored: 1x8, 2x4, 2x3, 8x1 and so on, and the empty shapes.
MaxCells == 8

(* ------------------------------------------------------------- constants *)

\* `for iteration in 0..7`
MaxIterations == 7

\* The neighbour-count threshold of the transition rule.
Threshold == 4

\* enum Tile { Wall, Floor }
Wall == "Wall"
Floor == "Floor"
Tile == {Wall, Floor}

(* ------------------------------------------------------------ the inputs *)

\* Further dimension pairs: the 3x3 grid, the smallest with a cell that has
\* all its eight neighbours inside, explored on every contents; and two
\* explored on chosen contents only, the 5x5 grid of the end-to-end
\* scenario and a 9x9 grid, the smallest found to hold an oscillating cave.
ScenarioDims == {<<3, 3>>, <<5, 5>>, <<9, 9>>}

\* The (width, height) pairs handed to Dungeon::new.  usize admits zero.
SmallDims == {d \in (0..MaxCells) \X (0..MaxCells) : d[1] * d[2] <= MaxCells}
Dims == SmallDims \cup ScenarioDims

\* wall_probability, in hundredths: 0.0, 0.45 (the value main passes), 1.0.
Probabilities == {0, 45, 100}

\* What rng.gen::<f64>() returns, in hundredths; a value of [0, 1).
DrawValues == {0, 99}

\* A 5x5 seed whose automaton keeps changing for more than MaxIterations
\* steps, as a stream of draws in row-major order (0 draws a Wall and 99 a
\* Floor under wall_probability 0.45).
LongSeed ==
  << 99, 99, 99, 99, 99,
      0,  0, 99, 99, 99,
     99,  0,  0, 99, 99,
     99, 99,  0, 99, 99,
     99, 99, 99, 99,  0 >>

\* A 9x9 seed of period 2: two caves that meet at a pinch, whose four cells
\* swap at every step, so that the automaton never converges.
Oscillator ==
  <<  0, 99, 99,  0,  0,  0,  0,  0,  0,
     99, 99, 99, 99,  0,  0,  0,  0,  0,
     99, 99, 99, 99,  0,  0,  0,  0,  0,
      0, 99, 99, 99, 99,  0,  0,  0,  0,
      0,  0,  0,  0, 99,  0,  0,  0,  0,
      0,  0,  0,  0, 99, 99, 99, 99,  0,
      0,  0,  0,  0,  0, 99, 99, 99, 99,
      0,  0,  0,  0,  0, 99, 99, 99, 99,
      0,  0,  0,  0,  0,  0, 99, 99,  0 >>

\* The streams of draws the random source may produce for a width x height
\* grid: the chosen one for the 5x5 and the 9x9 grid, every stream for the
\* others.
Streams(width, height) ==
  IF <<width, height>> = <<5, 5>> THEN {LongSeed}
  ELSE IF <<width, height>> = <<9, 9>> THEN {Oscillator}
  ELSE [1..(width * height) -> DrawValues]

(* ------------------------------------------------------------ the Dungeon *)

\* Dungeon::new with the two lengths exchanged: width rows of height tiles.
NewTransposed(width, height) ==
  [width  |-> width,
   height |-> height,
   tiles  |-> [y \in 0..(width - 1) |-> [x \in 0..(height - 1) |-> Wall]]]

\* Dungeon::new: height rows of width Wall tiles, whatever the dimensions.
New(width, height) ==
  [width  |-> width,
   height |-> height,
   tiles  |-> [y \in 0..(height - 1) |-> [x \in 0..(width - 1) |-> Wall]]]

\* Dungeon::initialize_random: cell (x, y) takes the (y*width + x)-th draw
\* of the stream (the loops run y outermost, x innermost).
initialize_random(self, wall_probability, rng) ==
  [self EXCEPT !.tiles =
     [y \in 0..(self.height - 1) |->
        [x \in 0..(self.width - 1) |->
           IF rng[y * self.width + x + 1] < wall_probability
             THEN Wall ELSE Floor]]]

\* count_wall_neighbors with the grid wrapped around at its edges: a
\* position outside the grid is read on the opposite side.
RECURSIVE CountFromWrapped(_, _, _, _)
CountFromWrapped(self, x, y, k) ==
  IF k > 8 THEN 0
  ELSE LET dy == (k \div 3) - 1
           dx == (k % 3) - 1
           nx == (x + dx) % self.width
           ny == (y + dy) % self.height
           inc == IF dx = 0 /\ dy = 0 THEN 0
                  ELSE IF self.tiles[ny][nx] = Wall THEN 1
                  ELSE 0
       IN  inc + CountFromWrapped(self, x, y, k + 1)

\* count_wall_neighbors with the positions outside the grid ignored.
RECURSIVE CountFromInside(_, _, _, _)
CountFromInside(self, x, y, k) ==
  IF k > 8 THEN 0
  ELSE LET dy == (k \div 3) - 1
           dx == (k % 3) - 1
           nx == x + dx
           ny == y + dy
           inc == IF dx = 0 /\ dy = 0 THEN 0
                  ELSE IF nx < 0 \/ ny < 0 \/ nx >= self.width \/ ny >= self.height
                    THEN 0
                  ELSE IF self.tiles[ny][nx] = Wall THEN 1
                  ELSE 0
       IN  inc + CountFromInside(self, x, y, k + 1)

\* The body of count_wall_neighbors' two loops for the k-th offset, k = 0..8
\* in the order the loops visit them: dy = -1..=1 outermost, dx = -1..=1.
RECURSIVE CountFrom(_, _, _, _)
CountFrom(self, x, y, k) ==
  IF k > 8 THEN 0
  ELSE LET dy == (k \div 3) - 1
           dx == (k % 3) - 1
           nx == x + dx
           ny == y + dy
           inc == IF dx = 0 /\ dy = 0 THEN 0
                  ELSE IF nx < 0 \/ ny < 0 \/ nx >= self.width \/ ny >= self.height
                    THEN 1
                  ELSE IF self.tiles[ny][nx] = Wall THEN 1
                  ELSE 0
       IN  inc + CountFrom(self, x, y, k + 1)

\* Dungeon::count_wall_neighbors
count_wall_neighbors(self, x, y) == CountFrom(self, x, y, 0)

\* The transition rule with the tie given to Wall: `wall_count >= 4`.
new_tile_tie_to_wall(wall_count, current) ==
  IF wall_count >= Threshold THEN Wall
  ELSE Floor

\* The transition rule of simulate_step: `let new_tile = if ... else ...`.
new_tile(wall_count, current) ==
  IF wall_count > Threshold THEN Wall
  ELSE IF wall_count < Threshold THEN Floor
  ELSE current

\* The flag assigned at every cell instead of raised: it tells of the last
\* cell only.
changed_overwritten(changed, tile, current) == tile # current

\* The flag combined with `&&` instead of raised: it never leaves false.
changed_anded(changed, tile, current) == changed /\ tile # current

\* The flag update of simulate_step: `if new_tile != self.tiles[y][x]`.
changed_after(changed, tile, current) == changed \/ tile # current

\* The inner loop of simulate_step as a single shared array updated cell by
\* cell would run it: the counts are taken on the array being written.
RECURSIVE RowLoopInPlace(_, _, _, _)
RowLoopInPlace(self, acc, y, x) ==
  IF x >= self.width
    THEN acc
    ELSE LET shared == [self EXCEPT !.tiles = acc.tiles]
             wall_count == count_wall_neighbors(shared, x, y)
             tile == new_tile(wall_count, shared.tiles[y][x])
         IN  CHOOSE r \in
               {RowLoopInPlace(self, next, y, x + 1) :
                  next \in {[tiles   |-> [acc.tiles EXCEPT ![y][x] = tile],
                             changed |-> changed_after(acc.changed, tile,
                                                       shared.tiles[y][x])]}} :
               TRUE

\* The inner loop of simulate_step, `for x in 0..self.width`, from column x
\* on in row y: the counts are taken on self.tiles, the writes go to
\* new_tiles (acc.tiles), the flag to changed (acc.changed).  `next` is the
\* pair after the body has run for cell (x, y), computed before the loop
\* goes on.
RECURSIVE RowLoop(_, _, _, _)
RowLoop(self, acc, y, x) ==
  IF x >= self.width
    THEN acc
    ELSE LET wall_count == count_wall_neighbors(self, x, y)
             tile == new_tile(wall_count, self.tiles[y][x])
         IN  CHOOSE r \in
               {RowLoop(self, next, y, x + 1) :
                  next \in {[tiles   |-> [acc.tiles EXCEPT ![y][x] = tile],
                             changed |-> changed_after(acc.changed, tile,
                                                       self.tiles[y][x])]}} :
               TRUE

\* simulate_step's outer loop with the rows updated in place.
RECURSIVE StepLoopInPlace(_, _, _)
StepLoopInPlace(self, acc, y) ==
  IF y >= self.height
    THEN acc
    ELSE CHOOSE r \in
           {StepLoopInPlace(self, next, y + 1) :
              next \in {RowLoopInPlace(self, acc, y, 0)}} :
           TRUE

\* The outer loop of simulate_step, `for y in 0..self.height`, from row y
\* on.
RECURSIVE StepLoop(_, _, _)
StepLoop(self, acc, y) ==
  IF y >= self.height
    THEN acc
    ELSE CHOOSE r \in
           {StepLoop(self, next, y + 1) : next \in {RowLoop(self, acc, y, 0)}} :
           TRUE

\* What simulate_step starts from: new_tiles a clone of self.tiles, changed
\* false.
StepStart(self) == [tiles |-> self.tiles, changed |-> FALSE]

\* simulate_step building its new grid row by row and stopping one row
\* short: `for y in 0..self.height - 1`.
simulate_step_short(self) ==
  LET r == StepLoop(self, StepStart(self), 0)
  IN  [tiles   |-> [y \in 0..(self.height - 2) |-> r.tiles[y]],
       changed |-> r.changed]

\* Dungeon::simulate_step: the grid it leaves in self.tiles and the flag it
\* returns.
simulate_step(self) == StepLoop(self, StepStart(self), 0)

(* -------------------------------------------------------------- the state *)

VARIABLES
  pc,         \* the driver's position in main
  result,     \* "running", or what main returned: "ok" or "err"
  dungeon,    \* the Dungeon: [width, height, tiles]
  iteration,  \* the loop variable of `for iteration in 0..7`
  changed,    \* what the latest simulate_step returned
  steps,      \* the number of simulate_step calls made
  renders,    \* the number of render calls made
  before,     \* self.tiles as the latest simulate_step found it
  emissions,  \* the render calls made so far, in order
  key,        \* what read_exact returned: "none" yet, "read" or "failed"
  terminal    \* the terminal: [raw_mode, cursor_hidden]

vars ==
  <<pc, result, dungeon, iteration, changed, steps, renders, before,
    emissions, key, terminal>>

\* The value of `dungeon` before `let mut dungeon` is executed.
NoDungeon == [width |-> 0, height |-> 0, tiles |-> <<>>]

Init ==
  /\ pc = "setup"
  /\ result = "running"
  /\ dungeon = NoDungeon
  /\ iteration = 0
  /\ changed = FALSE
  /\ steps = 0
  /\ renders = 0
  /\ before = <<>>
  /\ emissions = <<>>
  /\ key = "none"
  /\ terminal = [raw_mode |-> FALSE, cursor_hidden |-> FALSE]

\* An I/O call whose error is swallowed instead of returned with `?`.
TrySwallowing(ok, next) == pc' = next /\ result' = result

\* An I/O call followed by `?`: on failure main returns the error where it
\* stands, on success it goes on to `next`.
Try(ok, next) ==
  IF ok THEN pc' = next /\ result' = result
        ELSE pc' = pc /\ result' = "err"

\* terminal::enable_raw_mode()?; execute!(stdout, Clear, Hide)?;
\* Either call may fail; a failed execute! may or may not have hidden the
\* cursor.
Setup ==
  /\ pc = "setup" /\ result = "running"
  /\ \E outcome \in {"ok", "raw_failed", "execute_failed"} :
       \E hidden \in BOOLEAN :
         /\ Try(outcome = "ok", "new")
         /\ terminal' =
              CASE outcome = "ok" ->
                     [raw_mode |-> TRUE, cursor_hidden |-> TRUE]
                [] outcome = "raw_failed" -> terminal
                [] outcome = "execute_failed" ->
                     [raw_mode |-> TRUE, cursor_hidden |-> hidden]
  /\ UNCHANGED <<dungeon, iteration, changed, steps, renders, before,
                 emissions, key>>

\* let mut dungeon = Dungeon::new(width, height);
Construct ==
  /\ pc = "new" /\ result = "running"
  /\ \E d \in Dims : dungeon' = New(d[1], d[2])
  /\ pc' = "init"
  /\ UNCHANGED <<result, iteration, changed, steps, renders, before,
                 emissions, key, terminal>>

\* dungeon.initialize_random(wall_probability);
Randomize ==
  /\ pc = "init" /\ result = "running"
  /\ \E p \in Probabilities :
       \E rng \in Streams(dungeon.width, dungeon.height) :
         dungeon' = initialize_random(dungeon, p, rng)
  /\ iteration' = 0
  /\ pc' = "loop"
  /\ UNCHANGED <<result, changed, steps, renders, before, emissions, key,
                 terminal>>

\* The loop without its cap: it goes on until a step changes nothing.
LoopHeadUncapped ==
  /\ pc = "loop" /\ result = "running"
  /\ pc' = "render"
  /\ UNCHANGED <<result, dungeon, iteration, changed, steps, renders, before,
                 emissions, key, terminal>>

\* The loop over the inclusive range `0..=7`.
LoopHeadInclusive ==
  /\ pc = "loop" /\ result = "running"
  /\ pc' = IF iteration <= MaxIterations THEN "render" ELSE "final"
  /\ UNCHANGED <<result, dungeon, iteration, changed, steps, renders, before,
                 emissions, key, terminal>>

\* The head of `for iteration in 0..7`.
LoopHead ==
  /\ pc = "loop" /\ result = "running"
  /\ pc' = IF iteration < MaxIterations THEN "render" ELSE "final"
  /\ UNCHANGED <<result, dungeon, iteration, changed, steps, renders, before,
                 emissions, key, terminal>>

\* The label printed with the tiles' row-major index instead: `iteration`.
label_zero_based(i) == i

\* The label of the loop's println!: `iteration + 1`.
label_of(i) == i + 1

\* A render call as the log keeps it: the label that goes with it (0 for
\* the final one, which prints no number), the grid render reads, the number
\* of steps made before it, and whether it succeeded.
Emission(label, ok) ==
  [label |-> label, grid |-> dungeon.tiles, steps |-> steps, ok |-> ok]

\* A render that takes the tiles out of the dungeon to draw them and leaves
\* a fresh all-Wall grid behind.
RenderTaking(label, next) ==
  /\ renders' = renders + 1
  /\ \E ok \in BOOLEAN :
       /\ emissions' = Append(emissions, Emission(label, ok))
       /\ Try(ok, next)
  /\ dungeon' = New(dungeon.width, dungeon.height)

\* dungeon.render()?: render borrows the dungeon immutably (&self) and only
\* writes to stdout; any of its writes may fail.
Render(label, next) ==
  /\ renders' = renders + 1
  /\ \E ok \in BOOLEAN :
       /\ emissions' = Append(emissions, Emission(label, ok))
       /\ Try(ok, next)
  /\ dungeon' = dungeon

\* dungeon.render()?; println!(iteration + 1); sleep
LoopRender ==
  /\ pc = "render" /\ result = "running"
  /\ Render(label_of(iteration), "step")
  /\ UNCHANGED <<iteration, changed, steps, before, key, terminal>>

\* The step of the loop without its `break`: the flag is dropped.
StepNoBreak ==
  /\ pc = "step" /\ result = "running"
  /\ \E r \in {simulate_step(dungeon)} :
       /\ dungeon' = [dungeon EXCEPT !.tiles = r.tiles]
       /\ changed' = r.changed
  /\ pc' = "loop"
  /\ iteration' = iteration + 1
  /\ before' = dungeon.tiles
  /\ steps' = steps + 1
  /\ UNCHANGED <<result, renders, emissions, key, terminal>>

\* if !dungeon.simulate_step() { break; }
Step ==
  /\ pc = "step" /\ result = "running"
  /\ \E r \in {simulate_step(dungeon)} :
       /\ dungeon' = [dungeon EXCEPT !.tiles = r.tiles]
       /\ changed' = r.changed
       /\ IF r.changed
            THEN pc' = "loop" /\ iteration' = iteration + 1
            ELSE pc' = "final" /\ iteration' = iteration
  /\ before' = dungeon.tiles
  /\ steps' = steps + 1
  /\ UNCHANGED <<result, renders, emissions, key, terminal>>

\* The final dungeon.render()?; and its println!.
FinalRender ==
  /\ pc = "final" /\ result = "running"
  /\ Render(0, "wait")
  /\ UNCHANGED <<iteration, changed, steps, before, key, terminal>>

\* The wait for a key with the read error returned: `read_exact(..)?`.
WaitKeyPropagating ==
  /\ pc = "wait" /\ result = "running"
  /\ \E read_ok \in BOOLEAN :
       /\ key' = IF read_ok THEN "read" ELSE "failed"
       /\ Try(read_ok, "cleanup")
  /\ UNCHANGED <<dungeon, iteration, changed, steps, renders, before,
                 emissions, terminal>>

\* io::stdin().read_exact(&mut buffer).ok(): the Result is discarded.
WaitKey ==
  /\ pc = "wait" /\ result = "running"
  /\ \E read_ok \in BOOLEAN :
       key' = IF read_ok THEN "read" ELSE "failed"
  /\ pc' = "cleanup"
  /\ UNCHANGED <<result, dungeon, iteration, changed, steps, renders, before,
                 emissions, terminal>>

\* execute!(stdout, Show, Clear)?; terminal::disable_raw_mode()?; Ok(())
\* A failed execute! may or may not have shown the cursor, and leaves the
\* raw mode on; a failed disable_raw_mode leaves the raw mode on.
Cleanup ==
  /\ pc = "cleanup" /\ result = "running"
  /\ \E outcome \in {"ok", "execute_failed", "disable_failed"} :
       \E hidden \in BOOLEAN :
         /\ IF outcome = "ok" THEN pc' = "done" /\ result' = "ok"
                              ELSE pc' = pc /\ result' = "err"
         /\ terminal' =
              CASE outcome = "ok" ->
                     [raw_mode |-> FALSE, cursor_hidden |-> FALSE]
                [] outcome = "execute_failed" ->
                     [raw_mode |-> TRUE, cursor_hidden |-> hidden]
                [] outcome = "disable_failed" ->
                     [raw_mode |-> TRUE, cursor_hidden |-> FALSE]
  /\ UNCHANGED <<dungeon, iteration, changed, steps, renders, before,
                 emissions, key>>

Next ==
  \/ Setup
  \/ Construct
  \/ Randomize
  \/ LoopHead
  \/ LoopRender
  \/ Step
  \/ FinalRender
  \/ WaitKey
  \/ Cleanup

Spec == Init /\ [][Next]_vars

\* The steps main takes on its own: all but the wait for a key, which ends
\* only when the user presses one or the input ends.
Progress ==
  Setup \/ Construct \/ Randomize \/ LoopHead \/ LoopRender \/ Step
    \/ FinalRender \/ Cleanup

\* main is a single thread that keeps running: its sleeps are finite and
\* every call it makes returns.
LiveSpec == Spec /\ WF_vars(Progress)

(* ------------------------------------------------- notions the claims use *)

\* The cells of a dungeon, as (x, y) pairs.
Cells(self) == (0..(self.width - 1)) \X (0..(self.height - 1))

\* The dungeon as the latest simulate_step found it.
Before == [dungeon EXCEPT !.tiles = before]

\* The eight Moore-neighbour positions of (x, y), the centre excluded.
Moore(x, y) ==
  {<<x + dx, y + dy>> : dx \in -1..1, dy \in -1..1} \ {<<x, y>>}

InBounds(self, p) ==
  p[1] >= 0 /\ p[1] < self.width /\ p[2] >= 0 /\ p[2] < self.height

\* The in-bounds neighbours of (x, y) that are Wall, and the neighbour
\* positions outside the grid.
WallNeighbours(self, x, y) ==
  {p \in Moore(x, y) : InBounds(self, p) /\ self.tiles[p[2]][p[1]] = Wall}
OutsideNeighbours(self, x, y) ==
  {p \in Moore(x, y) : ~InBounds(self, p)}

\* The grid holds its random contents: initialize_random has run.
Populated == pc \notin {"setup", "new", "init"}

\* The update of every cell from one and the same grid: each cell's rule is
\* applied to the walls and outside positions around it in `self`.
SnapshotUpdate(self) ==
  [y \in 0..(self.height - 1) |->
     [x \in 0..(self.width - 1) |->
        LET n == Cardinality(WallNeighbours(self, x, y))
                   + Cardinality(OutsideNeighbours(self, x, y))
        IN  CASE n > 4 -> Wall
              [] n < 4 -> Floor
              [] n = 4 -> self.tiles[y][x]]]

\* What a row-by-row update in place would leave in the grid.
RowByRowInPlace(self) == StepLoopInPlace(self, StepStart(self), 0).tiles

(* ------------------------------------------------------------- the claims *)

\* C1: after simulate_step every cell holds the state the rule gives for
\* n = count_wall_neighbors(x, y) taken on the grid before the step: Wall if
\* n > 4, Floor if n < 4, the cell's state before the step if n = 4.
C1_TransitionRule ==
  steps > 0 =>
    \A c \in Cells(dungeon) :
      LET n == count_wall_neighbors(Before, c[1], c[2])
      IN  dungeon.tiles[c[2]][c[1]] =
            CASE n > 4 -> Wall
              [] n < 4 -> Floor
              [] n = 4 -> before[c[2]][c[1]]

\* A step has been made on a grid that has a cell of each case of the rule:
\* a Floor with more than 4, a Wall with fewer than 4, and both a Wall and a
\* Floor with exactly 4 wall neighbours.
C1_Witness ==
  /\ steps > 0
  /\ \E c \in Cells(dungeon) :
       count_wall_neighbors(Before, c[1], c[2]) > 4 /\ before[c[2]][c[1]] = Floor
  /\ \E c \in Cells(dungeon) :
       count_wall_neighbors(Before, c[1], c[2]) < 4 /\ before[c[2]][c[1]] = Wall
  /\ \E c \in Cells(dungeon) :
       count_wall_neighbors(Before, c[1], c[2]) = 4 /\ before[c[2]][c[1]] = Wall
  /\ \E c \in Cells(dungeon) :
       count_wall_neighbors(Before, c[1], c[2]) = 4 /\ before[c[2]][c[1]] = Floor

\* C2: the step is synchronous: the grid after the step is the update of
\* every cell from the grid before the step, and where a row-by-row update
\* in place would give another grid, the step's grid is not that one.
C2_Synchronous ==
  steps > 0 =>
    /\ dungeon.tiles = SnapshotUpdate(Before)
    /\ RowByRowInPlace(Before) # SnapshotUpdate(Before)
         => dungeon.tiles # RowByRowInPlace(Before)

\* A step has been made on a grid on which the row-by-row update in place
\* gives a different grid than the step gave.
C2_Witness ==
  /\ steps > 0
  /\ RowByRowInPlace(Before) # dungeon.tiles

\* C3: count_wall_neighbors(x, y) is the number of in-bounds Moore
\* neighbours that are Wall plus the number of neighbour positions outside
\* the grid; it is 8 on the 1x1 grid, and on a grid of at least 2x2 the
\* corner (0, 0) has 3 in-bounds neighbours and 5 positions outside, which
\* all count.
C3_EdgeAsWall ==
  pc \notin {"setup", "new"} =>
    /\ \A c \in Cells(dungeon) :
         count_wall_neighbors(dungeon, c[1], c[2]) =
           Cardinality(WallNeighbours(dungeon, c[1], c[2]))
             + Cardinality(OutsideNeighbours(dungeon, c[1], c[2]))
    /\ (dungeon.width = 1 /\ dungeon.height = 1)
         => count_wall_neighbors(dungeon, 0, 0) = 8
    /\ (dungeon.width >= 2 /\ dungeon.height >= 2)
         => /\ Cardinality(OutsideNeighbours(dungeon, 0, 0)) = 5
            /\ Cardinality(Moore(0, 0) \ OutsideNeighbours(dungeon, 0, 0)) = 3
            /\ count_wall_neighbors(dungeon, 0, 0) =
                 5 + Cardinality({p \in {<<1, 0>>, <<0, 1>>, <<1, 1>>} :
                                    dungeon.tiles[p[2]][p[1]] = Wall})

\* A populated grid of at least 2x2 whose corner (0, 0) has a Floor among
\* its in-bounds neighbours, so that its count is below 8 and above 4.
C3_Witness ==
  /\ Populated
  /\ dungeon.width >= 2 /\ dungeon.height >= 2
  /\ dungeon.tiles[0][1] = Floor /\ dungeon.tiles[1][0] = Wall
  /\ count_wall_neighbors(dungeon, 0, 0) \in 6..7

\* C4: the flag simulate_step returns is true exactly when some cell of the
\* grid after the step differs from that cell before the step.
C4_ChangedFlag ==
  steps > 0 =>
    (changed <=> \E c \in Cells(dungeon) :
                   dungeon.tiles[c[2]][c[1]] # before[c[2]][c[1]])

\* A step has returned true on a grid whose first cell it altered and whose
\* last cell it left as it was.
C4_Witness ==
  /\ steps > 0 /\ changed
  /\ dungeon.width * dungeon.height >= 2
  /\ dungeon.tiles[0][0] # before[0][0]
  /\ dungeon.tiles[dungeon.height - 1][dungeon.width - 1] =
       before[dungeon.height - 1][dungeon.width - 1]

\* C5: constructing a grid with a zero width or a zero height fails: once
\* main is past Dungeon::new, the dungeon has no zero dimension.
C5_ZeroDimensionRejected ==
  pc \notin {"setup", "new"} => (dungeon.width > 0 /\ dungeon.height > 0)

\* C6: for positive width and height, the grid new(width, height) returns
\* has height rows of width cells, width*height cells in all, every one Wall.
C6_NewAllWall ==
  (pc = "init" /\ dungeon.width > 0 /\ dungeon.height > 0) =>
    /\ DOMAIN dungeon.tiles = 0..(dungeon.height - 1)
    /\ \A y \in DOMAIN dungeon.tiles :
         /\ DOMAIN dungeon.tiles[y] = 0..(dungeon.width - 1)
         /\ \A x \in DOMAIN dungeon.tiles[y] : dungeon.tiles[y][x] = Wall
    /\ Cardinality({<<x, y>> : x \in 0..(dungeon.width - 1),
                               y \in DOMAIN dungeon.tiles}) =
         dungeon.width * dungeon.height

\* Dungeon::new has returned a grid that is wider than it is high.
C6_Witness ==
  /\ pc = "init"
  /\ dungeon.height > 1 /\ dungeon.width > dungeon.height

\* The loop of main is over: the final render call has been reached.
AtFinalEmission == pc \in {"final", "wait", "cleanup", "done"}

\* main has returned.
Returned == result # "running"

\* C7 as stated: simulate_step is called at most MaxIterations times, and a
\* run that has entered the loop does not end before the final emission.
C7_AlwaysFinalEmission ==
  /\ steps <= MaxIterations
  /\ (Populated /\ Returned) => AtFinalEmission

\* C7, amended: simulate_step is called at most MaxIterations times whether
\* or not the grid converges, and the loop always ends: the driver reaches
\* the final emission, or it returns the error of a failed I/O call.
C7_BoundedLoop ==
  /\ [](steps <= MaxIterations)
  /\ <>(AtFinalEmission \/ result = "err")

\* The loop has run out at the cap: MaxIterations steps were made, the last
\* of which still changed the grid, and the final emission is reached.
C7_Witness ==
  /\ steps = MaxIterations /\ changed
  /\ pc = "final"

\* C8: when the first simulate_step returns false, the driver leaves the
\* loop at once, short of the cap, makes no further step, and makes exactly
\* one render call beyond the first one.
C8_StableStopsAtOnce ==
  (steps = 1 /\ ~changed) =>
    /\ AtFinalEmission
    /\ iteration = 0 /\ steps < MaxIterations
    /\ renders = IF pc = "final" /\ result = "running" THEN 1 ELSE 2

\* The driver has finished a run whose first step returned false.
C8_Witness ==
  /\ steps = 1 /\ ~changed
  /\ pc = "done" /\ renders = 2

\* C9: a grid on which simulate_step has returned false is a fixed point:
\* a further simulate_step, and one more after it, leave the grid as it is
\* and return false.
C9_FixedPoint ==
  (steps > 0 /\ ~changed) =>
    LET once  == simulate_step(dungeon)
        twice == simulate_step([dungeon EXCEPT !.tiles = once.tiles])
    IN  /\ once.tiles = dungeon.tiles /\ ~once.changed
        /\ twice.tiles = dungeon.tiles /\ ~twice.changed

\* The driver has left the loop early, after several steps, on a grid that
\* holds both kinds of tile.
C9_Witness ==
  /\ steps > 1 /\ ~changed /\ pc = "final"
  /\ \E c \in Cells(dungeon) : dungeon.tiles[c[2]][c[1]] = Floor
  /\ \E c \in Cells(dungeon) : dungeon.tiles[c[2]][c[1]] = Wall

AllWall(self) == \A c \in Cells(self) : self.tiles[c[2]][c[1]] = Wall

\* C10: wall_probability 1.0 makes the 5x5 grid all Wall, and on the 5x5
\* all-Wall grid simulate_step returns false and leaves the grid all Wall.
C10_AllWallFixedPoint ==
  /\ \A rng \in Streams(5, 5) : AllWall(initialize_random(New(5, 5), 100, rng))
  /\ (steps > 0 /\ dungeon.width = 5 /\ dungeon.height = 5 /\ AllWall(Before))
       => (~changed /\ dungeon.tiles = before /\ AllWall(dungeon))

\* A step has been made on the 5x5 all-Wall grid.
C10_Witness ==
  /\ steps = 1 /\ dungeon.width = 5 /\ dungeon.height = 5
  /\ AllWall(Before)

\* C11: a failed render call is the last thing the run does: no emission
\* and no step follows it, main has returned the error, and the grid is the
\* one the failed call was given.
C11_RenderFailureFatal ==
  \A i \in 1..Len(emissions) :
    ~emissions[i].ok =>
      /\ i = Len(emissions) /\ renders = i
      /\ result = "err"
      /\ steps = emissions[i].steps
      /\ dungeon.tiles = emissions[i].grid

\* A render call inside the loop has failed after at least one step.
C11_Witness ==
  /\ Len(emissions) >= 2
  /\ ~emissions[Len(emissions)].ok
  /\ emissions[Len(emissions)].label > 0
  /\ steps >= 1

\* The dungeon exists: main is past Dungeon::new.
Constructed == pc \notin {"setup", "new"}

\* The tiles are height rows of width tiles, each a Wall or a Floor.
Shape(self) ==
  /\ DOMAIN self.tiles = 0..(self.height - 1)
  /\ \A y \in DOMAIN self.tiles :
       /\ DOMAIN self.tiles[y] = 0..(self.width - 1)
       /\ \A x \in DOMAIN self.tiles[y] : self.tiles[y][x] \in Tile

\* C13: from construction on, after initialize_random and after every
\* simulate_step, the grid is height rows of width tiles, each a Wall or a
\* Floor, and width and height never change.
C13_ShapeInvariant ==
  /\ [](Constructed => Shape(dungeon))
  /\ [][Constructed => /\ dungeon'.width = dungeon.width
                       /\ dungeon'.height = dungeon.height]_vars

\* Two steps have been made on a grid that is not square.
C13_Witness ==
  /\ steps >= 2
  /\ dungeon.width > 1 /\ dungeon.height > dungeon.width

\* The terminal is as main found it: cooked mode, cursor shown.
Restored == ~terminal.raw_mode /\ ~terminal.cursor_hidden

StepOf(grid) == simulate_step([dungeon EXCEPT !.tiles = grid]).tiles

\* C15: the k-th render call of the loop carries label k, is made when k-1
\* steps have been made and shows the grid those steps made of the first
\* one; the final call comes last, after the last step, and shows the grid
\* that step left.
C15_EmissionOrder ==
  \A i \in 1..Len(emissions) :
    LET e == emissions[i]
    IN  /\ e.label > 0 =>
             /\ e.label = i
             /\ e.steps = i - 1
             /\ i > 1 => e.grid = StepOf(emissions[i - 1].grid)
        /\ e.label = 0 =>
             /\ i = Len(emissions) /\ i >= 2
             /\ e.steps = i - 1 /\ e.steps = steps
             /\ e.grid = StepOf(emissions[i - 1].grid)
             /\ e.grid = dungeon.tiles

\* A run of at least three labelled emissions has made its final one.
C15_Witness ==
  /\ Len(emissions) >= 4
  /\ emissions[Len(emissions)].label = 0
  /\ emissions[Len(emissions)].ok

\* C16: a render call, failed or not, leaves the dungeon's width, height
\* and tiles as they were.
C16_RenderReadsOnly ==
  [][renders' # renders => dungeon' = dungeon]_vars

\* A render call has succeeded and a later one has failed, on a grid that
\* holds a Floor.
C16_Witness ==
  /\ Len(emissions) >= 2
  /\ emissions[1].ok /\ ~emissions[Len(emissions)].ok
  /\ \E c \in Cells(dungeon) : dungeon.tiles[c[2]][c[1]] = Floor

\* The corner cells of a dungeon.
Corners(self) ==
  {c \in Cells(self) : c[1] \in {0, self.width - 1} /\ c[2] \in {0, self.height - 1}}

CornersWall(self, grid) == \A c \in Corners(self) : grid[c[2]][c[1]] = Wall

\* C17: after a simulate_step the four corners are Wall, so every grid
\* emitted with a label of 2 or more, and the final grid, has Wall corners.
C17_CornersWall ==
  /\ steps > 0 => CornersWall(dungeon, dungeon.tiles)
  /\ \A i \in 1..Len(emissions) :
       emissions[i].label # 1 => CornersWall(dungeon, emissions[i].grid)

\* A step has turned a Floor corner of a grid of at least 2x2 into a Wall,
\* and the grid has been emitted with label 2.
C17_Witness ==
  /\ steps > 0
  /\ dungeon.width >= 2 /\ dungeon.height >= 2
  /\ \E c \in Corners(dungeon) : before[c[2]][c[1]] = Floor
  /\ Len(emissions) >= 2 /\ emissions[2].label = 2

\* The final render call has been made and no I/O call has failed.
ErrorFreeEnd ==
  /\ pc \in {"wait", "cleanup", "done"} /\ result # "err"
  /\ \A i \in 1..Len(emissions) : emissions[i].ok

\* C18 as stated: in an error-free run the emissions are one more than the
\* steps, 2 to 8 of them; after convergence the final emission shows the
\* grid of the last labelled one; at the cap it shows a grid that no earlier
\* emission showed.
C18_FinalGridIsNew ==
  ErrorFreeEnd =>
    LET n == Len(emissions)
    IN  /\ n = steps + 1 /\ n \in 2..(MaxIterations + 1)
        /\ ~changed => emissions[n].grid = emissions[n - 1].grid
        /\ changed =>
             /\ steps = MaxIterations
             /\ \A i \in 1..(n - 1) : emissions[i].grid # emissions[n].grid

\* C18, amended: as stated, but at the cap the final emission shows the
\* result of the 7th step, a generation no earlier emission showed and no
\* simulate_step was called on; its grid differs from the grid of the 7th
\* labelled emission, and may equal a grid emitted before that.
C18_FinalGenerationIsNew ==
  ErrorFreeEnd =>
    LET n == Len(emissions)
    IN  /\ n = steps + 1 /\ n \in 2..(MaxIterations + 1)
        /\ ~changed => emissions[n].grid = emissions[n - 1].grid
        /\ changed =>
             /\ steps = MaxIterations
             /\ emissions[n].steps = MaxIterations
             /\ \A i \in 1..(n - 1) : emissions[i].steps < emissions[n].steps
             /\ emissions[n].grid # emissions[n - 1].grid
             /\ emissions[n].grid = StepOf(emissions[n - 1].grid)

\* An error-free run has ended at the cap on an oscillating grid: its final
\* emission shows the grid its 6th labelled emission showed.
C18_Witness ==
  /\ ErrorFreeEnd /\ pc = "done"
  /\ changed /\ steps = MaxIterations
  /\ emissions[Len(emissions)].grid = emissions[Len(emissions) - 2].grid

\* The dungeon is a single row or a single column of cells.
Strip == dungeon.width >= 1 /\ dungeon.height >= 1
           /\ (dungeon.width = 1 \/ dungeon.height = 1)

\* C19: on a grid one cell wide or one cell high, the first simulate_step
\* makes every cell Wall and the next one returns false, so the driver
\* makes at most 2 steps.
C19_StripFillsAtOnce ==
  (Constructed /\ Strip /\ steps >= 1) =>
    /\ AllWall(dungeon)
    /\ ~simulate_step(dungeon).changed
    /\ steps <= 2
    /\ steps = 2 => ~changed

\* The driver has made its second step on a column of at least 3 cells.
C19_Witness ==
  /\ dungeon.width = 1 /\ dungeon.height >= 3
  /\ steps = 2

====
